---- MODULE Spec2Model ----
(***************************************************************************)
(* A model of the ControlElement widget of the Controlled Frame test app   *)
(* (controlElement.js): one control, the fields it renders, the handler    *)
(* bound to it, and the asynchronous field reads and writes that wait for  *)
(* the control's first render; and of its ControlGroupElement              *)
(* (controlGroupElement.js): a tree of groups, their depth and their        *)
(* expanded state, and what each group has rendered; and of the            *)
(* ControlledFrameController (controlledframe_api.js): the frame it        *)
(* creates, the groups and listeners it adds, and its calls on the frame.  *)
(***************************************************************************)
EXTENDS Integers, Sequences, FiniteSets

VARIABLES
  params,     \* the argument of the constructor
  lifecycle,  \* "new", "failed", "constructed", "connected", "rendered"
  handler,    \* the private field #handler
  bound,      \* the handler last given to the constructor or to SetButtonHandler
  widgets,    \* the elements of renderRoot that have an id, in render order
  button,     \* TRUE when renderRoot holds the submit button
  waiters,    \* reactions registered on updateComplete, in registration order
  lastWrite,  \* by id, the value of the last UpdateFieldValue issued
  ret,        \* what the last step did: its result, the handlers it invoked, its log
  groups,     \* by group, the fields of the ControlGroupElement and what it rendered
  gret,       \* what the last step on a group did
  controller, \* the fields of the ControlledFrameController
  page,       \* the elements of the page the controller works on
  host,       \* the frame that controller.controlledFrame refers to
  promise,    \* the promise of GetFieldValue an attribute handler has called then on
  kret        \* what the last step of the controller did

\* The variables of the control and of the groups.
cvars ==
  <<params, lifecycle, handler, bound, widgets, button, waiters, lastWrite, ret>>

gvars == <<groups, gret>>

pvars == <<controller, page, host, promise, kret>>

vars == <<cvars, gvars, pvars>>

\* The longest queue of reads and writes that wait for the first render.
MaxPending == 2

(***************************************************************************)
(* JavaScript values.  Every value is a record of the same shape, so that  *)
(* values of different JavaScript types can be compared.                   *)
(***************************************************************************)
NoOptions == <<>>

JSUndefined == [t |-> "undefined", s |-> "undefined", opts |-> NoOptions]

JSBool(b) == [t |-> "boolean", s |-> IF b THEN "true" ELSE "false", opts |-> NoOptions]

JSString(str) == [t |-> "string", s |-> str, opts |-> NoOptions]

JSNumber(digits) == [t |-> "number", s |-> digits, opts |-> NoOptions]

\* field.options of a <select>: every <option>, each with its selected flag.
JSOptions(options, selected) ==
  [t |-> "HTMLOptionsCollection", s |-> "[object HTMLOptionsCollection]",
   opts |-> [i \in DOMAIN options |->
               [value |-> options[i], selected |-> options[i] \in selected]]]

\* The truthiness test of `x ? a : b`, `!x` and of an assignment to .checked.
JSToBoolean(v) ==
  CASE v.t = "undefined" -> FALSE
    [] v.t = "boolean"   -> v.s = "true"
    [] v.t = "string"    -> v.s # ""
    [] v.t = "number"    -> v.s \notin {"0", "NaN"}
    [] OTHER             -> TRUE

\* The string conversion of an attribute binding and of an assignment to .value.
JSToString(v) == v.s

\* The strings an <input type=number> keeps; it replaces any other by "".
NumericStrings == {"0", "5"}

(***************************************************************************)
(* Field descriptors and constructor parameters.                           *)
(***************************************************************************)
Absent == "undefined"

Handlers == {"h1", "h2"}

NoHandler == "undefined"

Field(name, id, type) ==
  [name |-> name, id |-> id, type |-> type, value |-> JSUndefined,
   checked |-> JSUndefined, options |-> <<>>, multiple |-> FALSE]

CheckboxField(name, id, checked) ==
  [Field(name, id, "checkbox") EXCEPT !.checked = JSBool(checked)]

ValueField(name, id, type, value) ==
  [Field(name, id, type) EXCEPT !.value = value]

SelectField(name, options, multiple) ==
  [Field(name, Absent, "select") EXCEPT !.options = options, !.multiple = multiple]

ControlElementParams(name, hasFields, fields, isEventControl, handlerFn) ==
  [name |-> name, hasFields |-> hasFields, fields |-> fields,
   isEventControl |-> isEventControl, handler |-> handlerFn]

\* The controls of the page, one field of each kind they use.
PageControls ==
  { ControlElementParams(Absent, TRUE,
      << CheckboxField("autosize", Absent, TRUE) >>, JSUndefined, "h1"),
    ControlElementParams(Absent, TRUE,
      << ValueField("src", Absent, "text", JSString("https://a.com")) >>,
      JSUndefined, "h1"),
    ControlElementParams(Absent, TRUE,
      << CheckboxField("event.preventDefault()", "preventDefault", FALSE) >>,
      JSBool(TRUE), NoHandler),
    ControlElementParams("postMessage(message, targetOrigin)", TRUE,
      << Field("message", Absent, "text") >>, JSUndefined, "h1"),
    ControlElementParams(Absent, TRUE,
      << ValueField("go()", "go", "number", JSNumber("0")) >>, JSUndefined, "h1"),
    ControlElementParams(Absent, TRUE,
      << SelectField("contexts", <<"all", "page">>, TRUE) >>, JSUndefined, NoHandler),
    ControlElementParams(Absent, TRUE,
      << SelectField("type", <<"normal", "radio">>, FALSE) >>, JSUndefined, NoHandler),
    ControlElementParams(Absent, TRUE,
      << CheckboxField("checked", Absent, FALSE),
         ValueField("title", Absent, "text", JSString("")) >>, JSUndefined, NoHandler),
    ControlElementParams(Absent, TRUE,
      << Field("create(properties)", "result", "div") >>, JSUndefined, "h1"),
    ControlElementParams("back()", FALSE, <<>>, JSUndefined, "h1") }

\* Further constructor arguments: the scenario of the specification, the other
\* values of a number field, and the arguments the constructor rejects.
OtherControls ==
  { ControlElementParams(Absent, TRUE,
      << ValueField("src", Absent, "text", JSString("https://a.com")) >>,
      JSUndefined, NoHandler),
    ControlElementParams(Absent, TRUE,
      << ValueField("go()", "go", "number", JSNumber("5")) >>, JSBool(FALSE), "h1"),
    ControlElementParams(Absent, TRUE,
      << Field("go()", "go", "number") >>, JSUndefined, "h1"),
    ControlElementParams(Absent, TRUE,
      << CheckboxField("autosize", Absent, FALSE) >>, JSBool(TRUE), "h1"),
    ControlElementParams("named", TRUE,
      << Field(Absent, "anon", "text") >>, JSUndefined, NoHandler),
    ControlElementParams(Absent, TRUE,
      << Field(Absent, "anon", "text") >>, JSUndefined, "h1"),
    ControlElementParams(Absent, TRUE, <<>>, JSUndefined, "h1"),
    ControlElementParams(Absent, FALSE, <<>>, JSUndefined, "h1") }

\* The values UpdateFieldValue is called with, by the type of the field.
UpdateValues(type) ==
  CASE type = "checkbox" -> {JSBool(TRUE), JSBool(FALSE)}
    [] type = "text"     -> {JSString("https://b.com"), JSString("")}
    [] type = "number"   -> {JSNumber("5"), JSString("https://b.com")}
    [] type = "select"   -> {JSString("page"), JSString("https://b.com")}
    [] type = "div"      -> {JSString("https://b.com"), JSBool(TRUE)}
    [] OTHER             -> {JSString("https://b.com")}

\* The strings a user types into a text or number field.
TypedStrings == {"", "5"}

\* A field name no control has.
NoSuchField == "nosuch"

Params == PageControls \cup OtherControls

(***************************************************************************)
(* The fields of the constructed object.                                   *)
(***************************************************************************)
\* this.fields = params.fields ? params.fields : new Array()
Fields == IF params.hasFields THEN params.fields ELSE <<>>

\* this.isEventControl = params.isEventControl !== undefined ? ... : false
IsEventControl ==
  IF params.isEventControl # JSUndefined THEN params.isEventControl ELSE JSBool(FALSE)

\* const id = field.id !== undefined ? field.id : field.name
FieldId(field) == IF field.id # Absent THEN field.id ELSE field.name

FieldIds == {FieldId(Fields[i]) : i \in DOMAIN Fields}

\* The descriptor type of the field with this id, Absent when there is none.
TypeOf(fieldName) ==
  IF fieldName \in FieldIds
  THEN Fields[CHOOSE i \in DOMAIN Fields : FieldId(Fields[i]) = fieldName].type
  ELSE Absent

\* The constructor as it would be if it looked only at the length of the fields.
ConstructorThrowsEmptyOnly(p) ==
  /\ p.name = Absent
  /\ \/ ~p.hasFields
     \/ Len(p.fields) = 0

\* The constructor throws when neither a name nor a first field name is given.
ConstructorThrows(p) ==
  /\ p.name = Absent
  /\ \/ ~p.hasFields
     \/ Len(p.fields) = 0
     \/ p.fields[1].name = Absent

(***************************************************************************)
(* Rendering: one widget per field descriptor.                             *)
(***************************************************************************)
\* The type property of an <input>: an unknown type attribute reads as "text".
InputType(type) == IF type \in {"text", "number", "checkbox"} THEN type ELSE "text"

\* The value an <input> keeps of the string assigned to it.
Sanitize(type, str) ==
  IF InputType(type) = "number" /\ str \notin NumericStrings THEN "" ELSE str

Widget(id, type) ==
  [id |-> id, type |-> type, checked |-> FALSE, value |-> "", options |-> <<>>,
   selected |-> {}, expando |-> JSUndefined, innerText |-> ""]

\* renderField as it would be if the default case left the value attribute out.
renderFieldNoValue(field) ==
  LET id == FieldId(field) IN
  CASE field.type = "checkbox" ->
         [Widget(id, "checkbox") EXCEPT !.checked = JSToBoolean(field.checked)]
    [] field.type = "select" ->
         [Widget(id, IF field.multiple THEN "select-multiple" ELSE "select-one")
            EXCEPT !.options = field.options,
                   !.selected = IF field.multiple \/ field.options = <<>>
                                THEN {} ELSE {field.options[1]}]
    [] field.type = "div" -> Widget(id, "undefined")
    [] OTHER -> Widget(id, InputType(field.type))

\* renderField(field): the widget of one descriptor.
renderField(field) ==
  LET id == FieldId(field) IN
  CASE field.type = "checkbox" ->
         [Widget(id, "checkbox") EXCEPT !.checked = JSToBoolean(field.checked)]
    [] field.type = "select" ->
         [Widget(id, IF field.multiple THEN "select-multiple" ELSE "select-one")
            EXCEPT !.options = field.options,
                   !.selected = IF field.multiple \/ field.options = <<>>
                                THEN {} ELSE {field.options[1]}]
    [] field.type = "div" -> Widget(id, "undefined")
    [] OTHER ->
         [Widget(id, InputType(field.type))
            EXCEPT !.value = Sanitize(field.type,
                               IF JSToBoolean(field.value)
                               THEN JSToString(field.value) ELSE "")]

renderFields == [i \in DOMAIN Fields |-> renderField(Fields[i])]

\* TRUE when the template holds the submit button.
maybeRenderButton == ~(JSToBoolean(IsEventControl) \/ handler = NoHandler)

\* The id of the submit button: <button id="button">.
ButtonId == "button"

\* The template of render(): the field widgets, then the button if there is one.
Template ==
  renderFields \o (IF maybeRenderButton THEN <<Widget(ButtonId, "submit")>> ELSE <<>>)

\* renderRoot.querySelector(`#${fieldName}`): the first widget with that id, 0 for null.
QuerySelector(ws, fieldName) ==
  IF \E i \in DOMAIN ws : ws[i].id = fieldName
  THEN CHOOSE i \in DOMAIN ws :
         /\ ws[i].id = fieldName
         /\ \A j \in DOMAIN ws : ws[j].id = fieldName => i <= j
  ELSE 0

\* The value property of a <select>: its first selected option, or "".
SelectValue(w) ==
  IF \E i \in DOMAIN w.options : w.options[i] \in w.selected
  THEN w.options[CHOOSE i \in DOMAIN w.options :
                   /\ w.options[i] \in w.selected
                   /\ \A j \in DOMAIN w.options : w.options[j] \in w.selected => i <= j]
  ELSE ""

\* Reading field.value.
ValueOf(w) ==
  CASE w.type \in {"select-one", "select-multiple"} -> JSString(SelectValue(w))
    [] w.type = "undefined" -> w.expando
    [] OTHER -> JSString(w.value)

\* Assigning field.value = value.
SetValue(w, value) ==
  CASE w.type \in {"select-one", "select-multiple"} ->
         [w EXCEPT !.selected =
            {o \in {w.options[i] : i \in DOMAIN w.options} : o = JSToString(value)}]
    [] w.type = "undefined" -> [w EXCEPT !.expando = value]
    [] OTHER -> [w EXCEPT !.value = Sanitize(w.type, JSToString(value))]

(***************************************************************************)
(* What a step reports.                                                    *)
(***************************************************************************)
\* No UpdateFieldValue has written the field.
NoWrite == [t |-> "none", s |-> "", opts |-> NoOptions]

Alive == {"constructed", "connected", "rendered"}

Ret(op) ==
  [op |-> op, field |-> "", arg |-> JSUndefined, issued |-> lifecycle,
   outcome |-> "returned", value |-> JSUndefined, error |-> "",
   calls |-> <<>>, log |-> <<>>, expect |-> NoWrite]

\* The last value UpdateFieldValue was issued with, for a field of the control.
Expected(fieldName) ==
  IF fieldName \in DOMAIN lastWrite THEN lastWrite[fieldName] ELSE NoWrite

(***************************************************************************)
(* GetFieldValue and UpdateFieldValue.                                     *)
(***************************************************************************)
\* GetFieldValue after its wait: the widget's value by its type.
getValue(ws, fieldName) ==
  LET i == QuerySelector(ws, fieldName) IN
  IF i = 0
  THEN [outcome |-> "rejected", error |-> "TypeError", value |-> JSUndefined]
  ELSE [outcome |-> "resolved", error |-> "",
        value |-> CASE ws[i].type = "checkbox" -> JSBool(ws[i].checked)
                    [] ws[i].type = "select-multiple" ->
                         JSOptions(ws[i].options, ws[i].selected)
                    [] OTHER -> ValueOf(ws[i])]

\* updateValue as it would be if its switch had no case for a checkbox.
updateValueNoCheckbox(ws, fieldName, value) ==
  LET i == QuerySelector(ws, fieldName) IN
  IF i = 0
  THEN [error |-> "TypeError", stored |-> FALSE, ws |-> ws]
  ELSE CASE ws[i].type = "div" ->
              [error |-> "", stored |-> TRUE,
               ws |-> [ws EXCEPT ![i].innerText = JSToString(value)]]
         [] ws[i].type = "select" ->
              [error |-> "", stored |-> FALSE, ws |-> ws]
         [] OTHER ->
              [error |-> "", stored |-> TRUE,
               ws |-> [ws EXCEPT ![i] = SetValue(ws[i], value)]]

\* The closure updateValue of UpdateFieldValue.
updateValue(ws, fieldName, value) ==
  LET i == QuerySelector(ws, fieldName) IN
  IF i = 0
  THEN [error |-> "TypeError", stored |-> FALSE, ws |-> ws]
  ELSE CASE ws[i].type = "checkbox" ->
              [error |-> "", stored |-> TRUE,
               ws |-> [ws EXCEPT ![i].checked = JSToBoolean(value)]]
         [] ws[i].type = "div" ->
              [error |-> "", stored |-> TRUE,
               ws |-> [ws EXCEPT ![i].innerText = JSToString(value)]]
         [] ws[i].type = "select" ->
              [error |-> "", stored |-> FALSE, ws |-> ws]
         [] OTHER ->
              [error |-> "", stored |-> TRUE,
               ws |-> [ws EXCEPT ![i] = SetValue(ws[i], value)]]

Waiter(op, fieldName, value) ==
  [op |-> op, field |-> fieldName, arg |-> value, issued |-> lifecycle,
   expect |-> Expected(fieldName)]

\* The step that reads a field: the read itself, synchronous or after the wait.
ReadField(fieldName, issued, expect) ==
  LET r == getValue(widgets, fieldName) IN
  /\ ret' = [Ret("GetFieldValue") EXCEPT !.field = fieldName, !.issued = issued,
               !.outcome = r.outcome, !.error = r.error, !.value = r.value,
               !.expect = expect]
  /\ UNCHANGED widgets

\* The step that writes a field: updateValue, synchronous or after the wait.
WriteField(fieldName, value, issued, failure) ==
  LET r == updateValue(widgets, fieldName, value) IN
  /\ widgets' = r.ws
  /\ ret' = [Ret("UpdateFieldValue") EXCEPT !.field = fieldName, !.arg = value,
               !.issued = issued, !.error = r.error,
               !.outcome = IF r.error # "" THEN failure ELSE "returned"]

GetFieldValue(fieldName) ==
  /\ lifecycle \in Alive
  /\ IF lifecycle = "constructed"
     THEN /\ Len(waiters) < MaxPending
          /\ waiters' = Append(waiters, Waiter("GetFieldValue", fieldName, JSUndefined))
          /\ ret' = [Ret("GetFieldValue") EXCEPT !.field = fieldName,
                       !.outcome = "suspended", !.expect = Expected(fieldName)]
          /\ UNCHANGED widgets
     ELSE /\ ReadField(fieldName, lifecycle, Expected(fieldName))
          /\ UNCHANGED waiters
  /\ UNCHANGED <<params, lifecycle, handler, bound, button, lastWrite>>

UpdateFieldValue(fieldName, value) ==
  /\ lifecycle \in Alive
  /\ lastWrite' = IF fieldName \in DOMAIN lastWrite
                  THEN [lastWrite EXCEPT ![fieldName] = value] ELSE lastWrite
  /\ IF lifecycle = "constructed"
     THEN /\ Len(waiters) < MaxPending
          /\ waiters' = Append(waiters, Waiter("UpdateFieldValue", fieldName, value))
          /\ ret' = [Ret("UpdateFieldValue") EXCEPT !.field = fieldName,
                       !.arg = value, !.outcome = "suspended"]
          /\ UNCHANGED widgets
     ELSE /\ WriteField(fieldName, value, lifecycle, "thrown")
          /\ UNCHANGED waiters
  /\ UNCHANGED <<params, lifecycle, handler, bound, button>>

\* A reaction on updateComplete runs once the first update has completed.
RunReaction ==
  /\ lifecycle = "rendered"
  /\ waiters # <<>>
  /\ LET w == Head(waiters) IN
     IF w.op = "GetFieldValue"
     THEN ReadField(w.field, w.issued, w.expect)
     ELSE WriteField(w.field, w.arg, w.issued, "rejected")
  /\ waiters' = Tail(waiters)
  /\ UNCHANGED <<params, lifecycle, handler, bound, button, lastWrite>>

(***************************************************************************)
(* The handler and its triggers.                                           *)
(***************************************************************************)
\* A call of the handler with the control as its argument.
Invoke(h) == [h |-> h, arg |-> "this"]

Effect(calls, log, error) == [calls |-> calls, log |-> log, error |-> error]

\* Submit() as it would be if it called the handler without an argument.
SubmitEffectNoArg(h) ==
  IF h = NoHandler
  THEN Effect(<<>>, <<>>, "TypeError")
  ELSE Effect(<<[h |-> h, arg |-> "undefined"]>>, <<>>, "")

\* Submit(): this.#handler(this); calling what is not a function is a TypeError.
SubmitEffect(h) ==
  IF h = NoHandler
  THEN Effect(<<>>, <<>>, "TypeError")
  ELSE Effect(<<Invoke(h)>>, <<>>, "")

\* onBtnClick(e) as it would be if it returned before calling Submit().
onBtnClickEffectNoSubmit(h) ==
  IF h = NoHandler
  THEN Effect(<<>>, <<>>, "ReferenceError")
  ELSE Effect(<<>>, <<>>, "")

\* onBtnClick(e): the message of Log.err reads the undeclared name buttonText,
\* a ReferenceError, before Log.err is called.
onBtnClickEffect(h) ==
  IF h = NoHandler
  THEN Effect(<<>>, <<>>, "ReferenceError")
  ELSE SubmitEffect(h)

\* #onKeyDown(e) as it would be if the listener kept the constructor's handler.
onKeyDownEffectStale(h, code) ==
  IF code = "Enter"
  THEN IF params.handler = NoHandler
       THEN Effect(<<>>, <<>>, "TypeError")
       ELSE Effect(<<Invoke(params.handler)>>, <<>>, "")
  ELSE Effect(<<>>, <<>>, "")

\* #onKeyDown(e)
onKeyDownEffect(h, code) ==
  IF code = "Enter"
  THEN IF h = NoHandler
       THEN Effect(<<>>, <<>>, "TypeError")
       ELSE Effect(<<Invoke(h)>>, <<>>, "")
  ELSE Effect(<<>>, <<>>, "")

KeyCodes == {"Enter", "KeyA"}

Triggered(op, what, e) ==
  /\ ret' = [Ret(op) EXCEPT !.field = what, !.calls = e.calls, !.log = e.log, !.error = e.error,
               !.outcome = IF e.error # "" THEN "thrown" ELSE "returned"]
  /\ UNCHANGED <<params, lifecycle, handler, bound, widgets, button, waiters, lastWrite>>

SetButtonHandler(h) ==
  /\ lifecycle \in Alive
  /\ handler' = h
  /\ bound' = h
  /\ ret' = [Ret("SetButtonHandler") EXCEPT !.field = h]
  /\ UNCHANGED <<params, lifecycle, widgets, button, waiters, lastWrite>>

Submit ==
  /\ lifecycle \in Alive
  /\ Triggered("Submit", "", SubmitEffect(handler))

\* Events of the page are handled once the pending reactions have run.
Idle == lifecycle = "rendered" /\ waiters = <<>>

\* A click on the rendered submit button.
onBtnClick ==
  /\ Idle
  /\ button
  /\ Triggered("onBtnClick", "click", onBtnClickEffect(handler))

\* A key pressed while the focus is on a widget of the control.
onKeyDown(code) ==
  /\ Idle
  /\ button \/ \E i \in DOMAIN widgets : widgets[i].type # "undefined"
  /\ Triggered("onKeyDown", code, onKeyDownEffect(handler, code))

(***************************************************************************)
(* The life of the control.                                                *)
(***************************************************************************)
Constructor ==
  /\ lifecycle = "new"
  /\ IF ConstructorThrows(params)
     THEN /\ lifecycle' = "failed"
          /\ handler' = handler
          /\ bound' = bound
          /\ ret' = [Ret("constructor") EXCEPT !.outcome = "thrown",
                       !.error = IF params.hasFields
                                 THEN "ControlElement: Name or field name must be provided."
                                 ELSE "TypeError"]
     ELSE /\ lifecycle' = "constructed"
          /\ handler' = params.handler
          /\ bound' = params.handler
          /\ ret' = Ret("constructor")
  /\ UNCHANGED <<params, widgets, button, waiters, lastWrite>>

\* The element is attached to the page: renderRoot exists, still empty.
Connect ==
  /\ lifecycle = "constructed"
  /\ lifecycle' = "connected"
  /\ ret' = Ret("connectedCallback")
  /\ UNCHANGED <<params, handler, bound, widgets, button, waiters, lastWrite>>

\* The first update: render() fills renderRoot and updateComplete resolves.
render ==
  /\ lifecycle = "connected"
  /\ lifecycle' = "rendered"
  /\ widgets' = Template
  /\ button' = maybeRenderButton
  /\ ret' = Ret("render")
  /\ UNCHANGED <<params, handler, bound, waiters, lastWrite>>

(***************************************************************************)
(* The user edits a widget.                                                *)
(***************************************************************************)
Edited(i, w) ==
  /\ widgets' = [widgets EXCEPT ![i] = w]
  /\ lastWrite' = [lastWrite EXCEPT ![widgets[i].id] = NoWrite]
  /\ ret' = [Ret("input") EXCEPT !.field = widgets[i].id]
  /\ UNCHANGED <<params, lifecycle, handler, bound, button, waiters>>

UserToggle(i) ==
  /\ Idle
  /\ widgets[i].type = "checkbox"
  /\ Edited(i, [widgets[i] EXCEPT !.checked = ~widgets[i].checked])

UserType(i, str) ==
  /\ Idle
  /\ widgets[i].type \in {"text", "number"}
  /\ Sanitize(widgets[i].type, str) # widgets[i].value
  /\ Edited(i, [widgets[i] EXCEPT !.value = Sanitize(widgets[i].type, str)])

UserSelect(i, k) ==
  /\ Idle
  /\ widgets[i].type \in {"select-one", "select-multiple"}
  /\ k \in DOMAIN widgets[i].options
  /\ LET o == widgets[i].options[k] IN
     /\ widgets[i].type = "select-one" => o \notin widgets[i].selected
     /\ Edited(i, [widgets[i] EXCEPT !.selected =
                     IF widgets[i].type = "select-one" THEN {o}
                     ELSE IF o \in @ THEN @ \ {o} ELSE @ \cup {o}])

(***************************************************************************)
(* Control groups: controlGroupElement.js.                                 *)
(***************************************************************************)
Groups == {"A", "B", "C"}

\* The controls a group holds beside its nested groups.
Controls == {"x", "y"}

\* The longest list of controls of a group.
MaxControls == 2

\* The title of a group that has not rendered carries no depth class.
NoClass == -1

\* new ControlGroupElement({controls, expanded}): depth 0, nothing rendered.
\* title, collapsed and slot are the depth class, the collapsed class and the
\* children of the last render.
ControlGroupElement(controls, expanded) ==
  [controls |-> controls,
   expanded |-> IF expanded # JSUndefined THEN JSToBoolean(expanded) ELSE TRUE,
   depth |-> 0, state |-> "constructed", dirty |-> FALSE,
   title |-> NoClass, collapsed |-> FALSE, slot |-> <<>>]

\* The trees the page builds with the constructor: a chain of three groups, the
\* outer two with a control before the nested group; and a group that holds a
\* group before a control, the rest to be added by AddControl.
Trees ==
  { [g \in Groups |-> CASE g = "A" -> <<"x", "B">>
                        [] g = "B" -> <<"y", "C">>
                        [] OTHER   -> <<>>],
    [g \in Groups |-> CASE g = "A" -> <<"B", "x">>
                        [] OTHER   -> <<>>] }

\* params.expanded of the three groups.
ExpandedParams ==
  { [g \in Groups |-> JSUndefined],
    [g \in Groups |-> IF g = "A" THEN JSBool(FALSE) ELSE JSUndefined] }

Children(gs, g) == {gs[g].controls[i] : i \in DOMAIN gs[g].controls}

\* The node is in the list of some group.
Owned(gs, n) == \E g \in Groups : n \in Children(gs, g)

RECURSIVE Descendants(_, _)
\* The groups and controls below a group, at every depth.
Descendants(gs, g) ==
  Children(gs, g) \cup
    UNION {Descendants(gs, c) : c \in Children(gs, g) \cap Groups}

\* The groups of the subtree of a group, itself included.
Subtree(gs, g) == {g} \cup (Descendants(gs, g) \cap Groups)

Ancestors(gs, n) == {a \in Groups : n \in Descendants(gs, a)}

GRet(op, node) ==
  [op |-> op, node |-> node, expanded |-> FALSE, depth |-> 0,
   outcome |-> "returned", error |-> "", visited |-> <<>>]

\* An update is pending: the first one, or one requested by a reactive property.
NeedsUpdate(group) ==
  \/ group.state = "connected"
  \/ group.state = "rendered" /\ group.dirty

\* The setter as it would be if expanded were not a reactive property.
SetPropertyNoUpdate(group, expanded) ==
  [group EXCEPT !.expanded = expanded]

\* this.expanded = expanded: the setter of the reactive property requests an
\* update when the value changes.
SetProperty(group, expanded) ==
  [group EXCEPT !.expanded = expanded,
                !.dirty = @ \/ (group.state = "rendered" /\ group.expanded # expanded)]

\* SetExpanded as it would be if it did not descend into the nested groups.
setExpandedShallow(gs, g, i, expanded) ==
  [gs EXCEPT ![g] = SetProperty(@, expanded)]

RECURSIVE setExpanded(_, _, _, _)
\* g.SetExpanded(expanded) from the i-th control on: the loop over #controls,
\* then the assignment to this.expanded.
setExpanded(gs, g, i, expanded) ==
  IF i > Len(gs[g].controls)
  THEN [gs EXCEPT ![g] = SetProperty(@, expanded)]
  ELSE LET control == gs[g].controls[i] IN
       setExpanded(IF control \in Groups
                   THEN setExpanded(gs, control, 1, expanded) ELSE gs,
                   g, i + 1, expanded)

RECURSIVE refreshState(_, _, _)
\* g.RefreshState() from the i-th control on: the groups whose RefreshState has
\* run, in order, and the error that ended the loop.  A ControlElement has no
\* method RefreshState.
refreshState(gs, g, i) ==
  IF i > Len(gs[g].controls)
  THEN [visited |-> <<>>, error |-> ""]
  ELSE LET control == gs[g].controls[i] IN
       IF control \notin DOMAIN gs
       THEN [visited |-> <<>>, error |-> "TypeError"]
       ELSE LET inner == refreshState(gs, control, 1) IN
            IF inner.error # ""
            THEN [visited |-> <<control>> \o inner.visited, error |-> inner.error]
            ELSE LET rest == refreshState(gs, g, i + 1) IN
                 [visited |-> <<control>> \o inner.visited \o rest.visited,
                  error |-> rest.error]

\* $('#control-div').append(group): a group that no group holds joins the page.
append(g) ==
  /\ groups[g].state = "constructed"
  /\ ~Owned(groups, g)
  /\ groups' = [groups EXCEPT ![g].state = "connected"]
  /\ gret' = GRet("append", g)
  /\ UNCHANGED <<cvars, pvars>>

\* The update as it would be if render() did not call SetGroupDepth.
GroupRenderNoDepth(g) ==
  /\ NeedsUpdate(groups[g])
  /\ groups' = [n \in Groups |->
       IF n = g
       THEN [groups[n] EXCEPT !.state = "rendered", !.dirty = FALSE,
                              !.title = groups[g].depth,
                              !.collapsed = ~groups[g].expanded,
                              !.slot = groups[g].controls]
       ELSE IF n \in Children(groups, g)
       THEN [groups[n] EXCEPT !.state = IF @ = "constructed" THEN "connected" ELSE @]
       ELSE groups[n]]
  /\ gret' = [GRet("render", g) EXCEPT !.depth = groups[g].depth]
  /\ UNCHANGED <<cvars, pvars>>

\* An update of a group: render() gives every nested group its depth, and the
\* template puts the controls of the group into its shadow tree.
GroupRender(g) ==
  /\ NeedsUpdate(groups[g])
  /\ groups' = [n \in Groups |->
       IF n = g
       THEN [groups[n] EXCEPT !.state = "rendered", !.dirty = FALSE,
                              !.title = groups[g].depth,
                              !.collapsed = ~groups[g].expanded,
                              !.slot = groups[g].controls]
       ELSE IF n \in Children(groups, g)
       THEN [groups[n] EXCEPT !.depth = groups[g].depth + 1,
                              !.state = IF @ = "constructed" THEN "connected" ELSE @]
       ELSE groups[n]]
  /\ gret' = [GRet("render", g) EXCEPT !.depth = groups[g].depth]
  /\ UNCHANGED <<cvars, pvars>>

\* AddControl(control) with a control or a group that no group holds yet and
\* that is not on the page.
AddControl(g, control) ==
  /\ Len(groups[g].controls) < MaxControls
  /\ control # g
  /\ ~Owned(groups, control)
  /\ control \notin Ancestors(groups, g)
  /\ control \in Groups => groups[control].state = "constructed"
  /\ groups' = [groups EXCEPT ![g].controls = Append(@, control)]
  /\ gret' = GRet("AddControl", g)
  /\ UNCHANGED <<cvars, pvars>>

\* Events of the page are handled once the pending updates have run.
GroupsIdle == \A g \in Groups : ~NeedsUpdate(groups[g])

\* A click on the title of a group that is shown.
toggleCollapseGroup(g) ==
  /\ GroupsIdle
  /\ groups[g].state = "rendered"
  /\ \A a \in Ancestors(groups, g) : ~groups[a].collapsed
  /\ groups' = [groups EXCEPT ![g] = SetProperty(@, ~groups[g].expanded)]
  /\ gret' = [GRet("toggleCollapseGroup", g) EXCEPT !.expanded = ~groups[g].expanded]
  /\ UNCHANGED <<cvars, pvars>>

SetExpanded(g, expanded) ==
  /\ groups' = setExpanded(groups, g, 1, expanded)
  /\ gret' = [GRet("SetExpanded", g) EXCEPT !.expanded = expanded]
  /\ UNCHANGED <<cvars, pvars>>

RECURSIVE SetExpandedAll(_, _, _)
\* The loop of expandAllControls over a set of groups.
SetExpandedAll(gs, todo, expanded) ==
  IF todo = {} THEN gs
  ELSE LET g == CHOOSE g \in todo : TRUE IN
       SetExpandedAll(setExpanded(gs, g, 1, expanded), todo \ {g}, expanded)

\* expandAllControls(expanded): SetExpanded on every control-group-element
\* that document.querySelectorAll finds, the groups appended to the page.
expandAllControls(expanded) ==
  /\ GroupsIdle
  /\ \E g \in Groups : groups[g].state # "constructed"
  /\ groups' = SetExpandedAll(groups,
       {g \in Groups : groups[g].state # "constructed" /\ ~Owned(groups, g)}, expanded)
  /\ gret' = [GRet("expandAllControls", "") EXCEPT !.expanded = expanded]
  /\ UNCHANGED <<cvars, pvars>>

\* The depths SetGroupDepth is called with from outside render().
Depths == {2}

\* SetGroupDepth(depth), called by other code than the render() of the parent.
SetGroupDepth(g, depth) ==
  /\ groups[g].depth # depth
  /\ groups' = [groups EXCEPT ![g].depth = depth]
  /\ gret' = [GRet("SetGroupDepth", g) EXCEPT !.depth = depth]
  /\ UNCHANGED <<cvars, pvars>>

RefreshState(g) ==
  /\ LET r == refreshState(groups, g, 1) IN
     gret' = [GRet("RefreshState", g) EXCEPT !.visited = r.visited, !.error = r.error,
                !.outcome = IF r.error # "" THEN "thrown" ELSE "returned"]
  /\ UNCHANGED groups
  /\ UNCHANGED <<cvars, pvars>>

(***************************************************************************)
(* The controller: controlledframe_api.js.                                 *)
(***************************************************************************)
\* The most calls of CreateControlledFrameTag: the constructor's and the Recreates.
MaxCreate == 2

\* The longest list of added content scripts.
MaxScripts == 2

\* The most pages in the history of the frame.
MaxHistory == 2

\* The methods and properties of the frame that the controller uses.
Capabilities ==
  {"contextMenus", "canGoBack", "canGoForward", "back", "forward", "go", "print",
   "request", "addContentScripts", "removeContentScripts", "getUserAgent",
   "getAudioState", "getProcessId", "getZoom", "getZoomMode", "isAudioMuted",
   "isSpatialNavigationEnabled", "isUserAgentOverridden"}

\* What a browser defines on the frame: the whole API, nothing of it, or the
\* API without some of its members.
ApiSets ==
  { Capabilities, {},
    Capabilities \ {"canGoForward"},
    Capabilities \ {"print", "request", "back", "getZoom", "addContentScripts"} }

\* The buttons of the page that #addControlledFrameMethodHandlers listens to.
MethodButtons == {"print_btn", "add_content_scripts_btn", "remove_content_scripts_btn"}

\* The buttons of the page that #addWebRequestHandlers listens to.
RequestButtons == {"request_on_completed_btn"}

Buttons == MethodButtons \cup RequestButtons

\* The names typed into the content script inputs.
ScriptNames == {"a", "b"}

\* The attribute controls of #initControlledFrameAttributes.
AttributeControls ==
  { ControlElementParams(Absent, TRUE,
      << CheckboxField("allowtransparency", Absent, FALSE) >>, JSUndefined,
      "setAllowtransparency"),
    ControlElementParams(Absent, TRUE,
      << CheckboxField("autosize", Absent, TRUE) >>, JSUndefined, "setAutosize"),
    ControlElementParams(Absent, TRUE,
      << ValueField("name", Absent, "text", JSString("controlled-frame-view")) >>,
      JSUndefined, "setName"),
    ControlElementParams(Absent, TRUE,
      << ValueField("partition", Absent, "text", JSString("persist:myapp")) >>,
      JSUndefined, "setPartition"),
    ControlElementParams(Absent, TRUE,
      << ValueField("src", Absent, "text", JSString("https://google.com")) >>,
      JSUndefined, "setSrc") }

\* The field an attribute handler reads, which is the attribute it sets.
AttributeOf(h) ==
  CASE h = "setAllowtransparency" -> "allowtransparency"
    [] h = "setAutosize"          -> "autosize"
    [] h = "setName"              -> "name"
    [] h = "setPartition"         -> "partition"
    [] OTHER                      -> "src"

\* What follows the protocol in the strings of the model.
Hosts == {"google.com", "5", ""}

StartsWith(str, prefix) == \E rest \in Hosts : str = prefix \o rest

prependHTTPSProtocol(str) ==
  IF ~StartsWith(str, "http://") /\ ~StartsWith(str, "https://")
  THEN "https://" \o str
  ELSE str

\* isValidUrl(str): new URL(str) does not throw and the protocol is http or
\* https.  A protocol without a host does not parse.
isValidUrl(str) ==
  \E rest \in Hosts \ {""} : str \in {"http://" \o rest, "https://" \o rest}

\* The groups the controller builds for a frame and the controls in them.
PageGroups ==
  [heading \in {"Tag Attributes", "Tag Properties", "contentWindow", "contextMenus",
                "onShow", "Tag Methods", "Navigation"} |->
     [controls |->
        CASE heading = "Tag Attributes" ->
               <<"allowtransparency", "autosize", "name", "partition", "src">>
          [] heading = "Tag Properties" -> <<"contentWindow", "contextMenus">>
          [] heading = "contentWindow"  -> <<"postMessage">>
          [] heading = "contextMenus"   -> <<"onShow">>
          [] heading = "onShow"         -> <<"preventDefault">>
          [] heading = "Tag Methods"    -> <<"Navigation">>
          [] OTHER -> <<"canGoBack", "canGoForward", "back", "forward", "go",
                        "reload", "stop", "terminate">>]]

\* A frame just created: no attribute set, an empty history, no call pending.
NewFrame(api) ==
  [api |-> api,
   attributes |-> [a \in {"allowtransparency", "autosize", "name", "partition", "src"}
                     |-> JSUndefined],
   history |-> [pos |-> 0, len |-> 0],
   callbacks |-> <<>>]

\* The frame's canGoBack() and canGoForward().
HostCanGoBack(h) == h.history.pos > 1

HostCanGoForward(h) == h.history.pos < h.history.len

\* controller.controlledFrame when $('#view') finds no element.
NoFrame == 0

\* The element $('#view') finds when the page has one.
StaticView == 1

NoPromise == [state |-> "none", value |-> JSUndefined]

\* No render, reaction of a promise or callback of the frame is pending.
PageIdle == Idle /\ promise = NoPromise /\ host.callbacks = <<>>

KRet(op) ==
  [op |-> op, button |-> "", outcome |-> "returned", error |-> "",
   calls |-> <<>>, log |-> <<>>, frame |-> NoFrame, visited |-> <<>>, names |-> <<>>]

\* #canGoBack(): the test of the method, then the call.
canGoBack(h) ==
  IF "canGoBack" \notin h.api
  THEN [value |-> FALSE, calls |-> <<>>, log |-> <<"warn">>]
  ELSE [value |-> HostCanGoBack(h), calls |-> <<"canGoBack">>, log |-> <<"info">>]

\* #canGoForward()
canGoForward(h) ==
  IF "canGoForward" \notin h.api
  THEN [value |-> FALSE, calls |-> <<>>, log |-> <<"warn">>]
  ELSE [value |-> HostCanGoForward(h), calls |-> <<"canGoForward">>, log |-> <<"info">>]

\* How far #initControlledFrameAPIControls gets: it throws while it builds the
\* contextMenus group when the frame has no contextMenus, and while it builds
\* the Navigation group when the frame has no canGoForward.
BuildError(api) ==
  CASE "contextMenus" \notin api -> "contextMenus"
    [] "canGoForward" \notin api -> "canGoForward"
    [] OTHER -> ""

\* The groups one call of CreateControlledFrameTag pushes and appends.
BuiltGroups(api, frame) ==
  LET group(heading) == [heading |-> heading, frame |-> frame] IN
  <<group("Tag Attributes")>>
    \o (IF BuildError(api) # "contextMenus" THEN <<group("Tag Properties")>> ELSE <<>>)
    \o (IF BuildError(api) = "" THEN <<group("Tag Methods")>> ELSE <<>>)

\* CreateControlledFrameTag as it would be if it did not remove the frame it has.
RemovedKeepsFrame(container, frame) == container

\* this.controlledFrame.remove(), for a frame that exists.
Removed(container, frame) == container \ {frame}

\* CreateControlledFrameTag(): the frame is replaced, the attribute controls are
\* built, appended and submitted, then the controls of the API are built and the
\* listeners of the page are added.  The control followed is built anew; its
\* Submit() calls its handler, which calls GetFieldValue and then on its promise.
CreateControlledFrameTag ==
  LET old == controller.controlledFrame
      new == StaticView + page.made + 1
      api == host.api
      fresh == NewFrame(api)
      built == BuildError(api) = ""
      back == canGoBack(fresh)
  IN
  /\ page.made < MaxCreate
  /\ page.made = 0 \/ PageIdle
  /\ controller' = [controller EXCEPT
       !.controlledFrame = new,
       !.controlGroups = @ \o BuiltGroups(api, new)]
  /\ page' = [page EXCEPT
       !.made = @ + 1,
       !.container = Removed(@, old) \cup {new},
       !.controlDiv = @ \o BuiltGroups(api, new),
       !.indicators = IF built
                      THEN [canGoBack |-> back.value,
                            canGoForward |-> HostCanGoForward(fresh)]
                      ELSE @,
       !.listeners = [b \in Buttons |->
                        IF built /\ (b \in MethodButtons \/ "request" \in api)
                        THEN @[b] + 1 ELSE @[b]]]
  /\ host' = fresh
  /\ kret' = [KRet("CreateControlledFrameTag") EXCEPT
       !.frame = new,
       !.outcome = IF built THEN "returned" ELSE "thrown",
       !.error = IF built THEN "" ELSE "TypeError",
       !.calls = IF BuildError(api) = "contextMenus" THEN <<>>
                 ELSE <<"contextMenus.onShow.addListener">> \o back.calls
                        \o (IF built THEN <<"canGoForward">> ELSE <<>>),
       !.log = (IF old # NoFrame THEN <<"info">> ELSE <<>>)
                 \o (IF BuildError(api) = "contextMenus" THEN <<>> ELSE back.log)
                 \o (IF built /\ "request" \notin api THEN <<"warn">> ELSE <<>>)]
  /\ lifecycle' = "constructed"
  /\ handler' = params.handler
  /\ bound' = params.handler
  /\ widgets' = <<>>
  /\ button' = FALSE
  /\ waiters' = <<[Waiter("GetFieldValue", AttributeOf(params.handler), JSUndefined)
                     EXCEPT !.issued = "constructed", !.expect = NoWrite]>>
  /\ lastWrite' = [id \in FieldIds |-> NoWrite]
  /\ ret' = [Ret("Submit") EXCEPT !.issued = "constructed",
               !.calls = <<Invoke(params.handler)>>]
  /\ promise' = [state |-> "pending", value |-> JSUndefined]
  /\ UNCHANGED <<params, gvars>>

\* The first update of the attribute control has completed: GetFieldValue goes
\* on and settles its promise.
SettleRead ==
  /\ promise.state = "pending"
  /\ RunReaction
  /\ promise' = [state |-> ret'.outcome, value |-> ret'.value]
  /\ UNCHANGED <<gvars, controller, page, host, kret>>

\* NavigateControlledFrame(url)
NavigateControlledFrame(h, url) ==
  IF ~isValidUrl(url)
  THEN [host |-> h, log |-> <<"err">>]
  ELSE [host |-> [h EXCEPT !.attributes["src"] = JSString(url)], log |-> <<>>]

\* What a handler would assign to the attribute if it assigned the value read.
AttributeValueUnconverted(attribute, value) == value

\* What a handler makes of the value it read from the field: 'on' or '' of a
\* checkbox, the URL with its protocol of src, the text of name and partition.
AttributeValue(attribute, value) ==
  CASE attribute \in {"allowtransparency", "autosize"} ->
         JSString(IF JSToBoolean(value) THEN "on" ELSE "")
    [] attribute = "src" -> JSString(prependHTTPSProtocol(JSToString(value)))
    [] OTHER -> value

\* The callback an attribute handler gave to then: #setAllowtransparency,
\* #setAutosize, #setName, #setPartition and #setSrc.
thenCallback ==
  LET attribute == AttributeOf(handler)
      value == promise.value
  IN
  /\ promise.state \in {"resolved", "rejected"}
  /\ promise' = NoPromise
  /\ IF promise.state = "rejected"
     THEN /\ kret' = [KRet(handler) EXCEPT !.outcome = "rejected", !.error = "TypeError"]
          /\ UNCHANGED <<host, cvars>>
     ELSE IF attribute = "src"
     THEN LET src == JSToString(AttributeValue(attribute, value))
              r == NavigateControlledFrame(host, src)
          IN /\ host' = r.host
             /\ kret' = [KRet(handler) EXCEPT !.log = r.log]
             /\ lastWrite' = [lastWrite EXCEPT !["src"] = JSString(src)]
             /\ WriteField("src", JSString(src), lifecycle, "thrown")
             /\ UNCHANGED <<params, lifecycle, handler, bound, button, waiters>>
     ELSE /\ host' = [host EXCEPT !.attributes[attribute] =
                        AttributeValue(attribute, value)]
          /\ kret' = KRet(handler)
          /\ UNCHANGED cvars
  /\ UNCHANGED <<gvars, controller, page>>

\* A click on the Set button of the attribute control: Submit() calls the
\* handler, and GetFieldValue reads the rendered field at once.
setAttribute ==
  /\ PageIdle
  /\ button
  /\ handler = params.handler
  /\ ReadField(AttributeOf(handler), lifecycle, Expected(AttributeOf(handler)))
  /\ promise' = [state |-> ret'.outcome, value |-> ret'.value]
  /\ UNCHANGED <<params, lifecycle, handler, bound, button, waiters, lastWrite>>
  /\ UNCHANGED <<gvars, controller, page, host, kret>>

\* What a listener of a button of the page does with the frame and with the
\* fields of the controller.
Outcome(ctl, h, calls, log, error) ==
  [controller |-> ctl, host |-> h, calls |-> calls, log |-> log, error |-> error]

\* #print(e)
print(ctl, h) ==
  IF "print" \notin h.api
  THEN Outcome(ctl, h, <<>>, <<"warn">>, "")
  ELSE Outcome(ctl, h, <<"print">>, <<"info">>, "")

\* #addOnCompleted(e)
addOnCompleted(ctl, h) ==
  IF "request" \notin h.api
  THEN Outcome(ctl, h, <<>>, <<>>, "TypeError")
  ELSE Outcome(ctl, h, <<"request.onCompleted.addListener">>, <<"info">>, "")

\* What #readContentScriptDetails() returns, of which the model keeps the name.
ContentScriptDetails(name) == [kind |-> "details", name |-> name, items |-> <<>>]

\* new Array() after push(details)
ContentScriptList(details) == [kind |-> "Array", name |-> Absent, items |-> <<details>>]

\* #addContentScripts(e): the list given to the frame, a new array that holds
\* the details, is what is pushed to #addedContentScripts.
addContentScripts(ctl, h, name) ==
  IF "addContentScripts" \notin h.api
  THEN Outcome(ctl, h, <<>>, <<"warn">>, "")
  ELSE Outcome([ctl EXCEPT !.addedContentScripts =
                  Append(@, ContentScriptList(ContentScriptDetails(name)))],
               h, <<"addContentScripts">>, <<"info">>, "")

\* scriptNameList.findIndex(s => s === name), counted from 1, 0 for -1.
findIndex(scriptNameList, name) ==
  IF \E k \in DOMAIN scriptNameList : scriptNameList[k] = name
  THEN CHOOSE k \in DOMAIN scriptNameList :
         /\ scriptNameList[k] = name
         /\ \A j \in DOMAIN scriptNameList : scriptNameList[j] = name => k <= j
  ELSE 0

\* array.splice(index, 1), the index counted from 1.
splice(array, index) ==
  IF index \in DOMAIN array
  THEN [k \in 1..(Len(array) - 1) |-> IF k < index THEN array[k] ELSE array[k + 1]]
  ELSE array

RECURSIVE forEachScript(_, _, _, _)
\* The forEach of #removeContentScripts from the i-th element on, over the n
\* elements the array had at the start: an element whose name is in the list
\* has the element at the index of that name in the list removed.
forEachScript(scripts, scriptNameList, i, n) ==
  IF i > n \/ i > Len(scripts)
  THEN scripts
  ELSE LET foundIndex == findIndex(scriptNameList, scripts[i].name) IN
       forEachScript(IF foundIndex = 0 THEN scripts ELSE splice(scripts, foundIndex),
                     scriptNameList, i + 1, n)

\* #removeContentScripts(e)
removeContentScripts(ctl, h, scriptNameList) ==
  IF "removeContentScripts" \notin h.api
  THEN Outcome(ctl, h, <<>>, <<"warn">>, "")
  ELSE Outcome([ctl EXCEPT !.addedContentScripts =
                  forEachScript(@, scriptNameList, 1, Len(@))],
               h, <<"removeContentScripts">>, <<"info">>, "")

\* The listener a call of CreateControlledFrameTag adds to a button.
Listener(b, ctl, h, scriptNameList) ==
  CASE b = "print_btn" -> print(ctl, h)
    [] b = "add_content_scripts_btn" -> addContentScripts(ctl, h, scriptNameList[1])
    [] b = "remove_content_scripts_btn" -> removeContentScripts(ctl, h, scriptNameList)
    [] OTHER -> addOnCompleted(ctl, h)

RECURSIVE Dispatch(_, _, _, _, _)
\* A click event on a button runs the n listeners added to it, one after the
\* other; what one throws is reported and does not stop the next.
Dispatch(b, n, ctl, h, scriptNameList) ==
  IF n = 0
  THEN Outcome(ctl, h, <<>>, <<>>, "")
  ELSE LET first == Listener(b, ctl, h, scriptNameList)
           rest == Dispatch(b, n - 1, first.controller, first.host, scriptNameList)
       IN Outcome(rest.controller, rest.host, first.calls \o rest.calls,
                  first.log \o rest.log,
                  IF first.error # "" THEN first.error ELSE rest.error)

\* The lists of names typed into the input of removeContentScripts; the first
\* name is the one typed into the name input of addContentScripts.
ScriptNameLists == {<<name>> : name \in ScriptNames} \cup {<<"a", "b">>}

\* A click on a button of the page.
Click(b, scriptNameList) ==
  /\ PageIdle
  /\ Len(controller.addedContentScripts) + page.listeners[b] <= MaxScripts
  /\ LET r == Dispatch(b, page.listeners[b], controller, host, scriptNameList) IN
     /\ controller' = r.controller
     /\ host' = r.host
     /\ kret' = [KRet("click") EXCEPT !.button = b, !.names = scriptNameList,
                   !.calls = r.calls, !.log = r.log,
                   !.error = r.error, !.frame = controller.controlledFrame,
                   !.outcome = IF r.error # "" THEN "thrown" ELSE "returned"]
  /\ UNCHANGED <<cvars, gvars, page, promise>>

\* The controls of the Navigation group that call the frame with a callback.
NavigationControls == {"back", "forward", "go"}

\* What parseInt reads from the field of the go control.
GoSteps == {-1, 1}

\* A click on the button of a navigation control: #back, #forward or #go calls
\* the frame, which keeps the callback until the navigation completes.
ClickNavigation(op, num) ==
  /\ PageIdle
  /\ page.made > 0
  /\ BuildError(host.api) = ""
  /\ IF op \notin host.api
     THEN /\ kret' = [KRet(op) EXCEPT !.log = <<"warn">>]
          /\ UNCHANGED host
     ELSE /\ kret' = [KRet(op) EXCEPT !.calls = <<op>>]
          /\ host' = [host EXCEPT !.callbacks = <<[op |-> op, num |-> num]>>]
  /\ UNCHANGED <<cvars, gvars, controller, page, promise>>

\* Where the frame is in its history after back(), forward() or go(num).
Navigated(history, op, num) ==
  LET step == CASE op = "back" -> -1 [] op = "forward" -> 1 [] OTHER -> num
      pos == history.pos + step
  IN IF pos >= 1 /\ pos <= history.len THEN [history EXCEPT !.pos = pos] ELSE history

\* The indicators after the callback of a navigation: back() updates canGoBack,
\* forward() updates canGoForward, go() updates both.
Indicators(indicators, op, h) ==
  [canGoBack |-> IF op \in {"back", "go"}
                 THEN canGoBack(h).value ELSE indicators.canGoBack,
   canGoForward |-> IF op \in {"forward", "go"}
                    THEN canGoForward(h).value ELSE indicators.canGoForward]

\* The frame completes a navigation and calls the callback it was given.
NavigationCallback ==
  /\ host.callbacks # <<>>
  /\ LET cb == Head(host.callbacks)
         h == [host EXCEPT !.history = Navigated(@, cb.op, cb.num),
                           !.callbacks = Tail(@)]
     IN /\ host' = h
        /\ page' = [page EXCEPT !.indicators = Indicators(@, cb.op, h)]
        /\ kret' = [KRet("callback") EXCEPT
             !.button = cb.op,
             !.calls = (IF cb.op \in {"back", "go"} THEN canGoBack(h).calls ELSE <<>>)
                         \o (IF cb.op \in {"forward", "go"}
                             THEN canGoForward(h).calls ELSE <<>>),
             !.log = <<"info">>]
  /\ UNCHANGED <<cvars, gvars, controller, promise>>

\* The state queries of RefreshState, in the order of their calls.
StateQueries ==
  <<"getUserAgent", "getAudioState", "getProcessId", "getZoom", "getZoomMode",
    "isAudioMuted", "isSpatialNavigationEnabled", "isUserAgentOverridden">>

RECURSIVE refreshGroups(_, _)
\* The loop of RefreshState over controlGroups from the i-th group on: the
\* groups whose RefreshState was called and the error that ended the loop.
refreshGroups(controlGroups, i) ==
  IF i > Len(controlGroups)
  THEN [visited |-> <<>>, error |-> ""]
  ELSE LET r == refreshState(PageGroups, controlGroups[i].heading, 1) IN
       IF r.error # ""
       THEN [visited |-> <<controlGroups[i]>>, error |-> r.error]
       ELSE LET rest == refreshGroups(controlGroups, i + 1) IN
            [visited |-> <<controlGroups[i]>> \o rest.visited, error |-> rest.error]

\* #refreshAddedContentScripts(): the lines of the displayed list.
refreshAddedContentScripts(scripts) == [k \in DOMAIN scripts |-> scripts[k].name]

\* RefreshState(): the groups, then the state queries, then the content scripts.
ControllerRefreshState(ctl, h, display) ==
  LET r == refreshGroups(ctl.controlGroups, 1) IN
  IF r.error # ""
  THEN [visited |-> r.visited, error |-> r.error, calls |-> <<>>, log |-> <<>>,
        display |-> display]
  ELSE [visited |-> r.visited, error |-> "",
        calls |-> SelectSeq(StateQueries, LAMBDA q : q \in h.api),
        log |-> [k \in DOMAIN StateQueries |->
                   IF StateQueries[k] \in h.api THEN "info" ELSE "warn"],
        display |-> refreshAddedContentScripts(ctl.addedContentScripts)]

\* The frame commits a load: the page joins the history, and the listener of
\* loadcommit, which #addEventListeners added, calls RefreshState.
onloadcommit ==
  /\ PageIdle
  /\ BuildError(host.api) = ""
  /\ host.attributes["src"] # JSUndefined
  /\ host.history.pos < MaxHistory
  /\ LET h == [host EXCEPT !.history = [pos |-> @.pos + 1, len |-> @.pos + 1]]
         r == ControllerRefreshState(controller, h, page.display)
     IN /\ host' = h
        /\ page' = [page EXCEPT !.display = r.display]
        /\ kret' = [KRet("RefreshState") EXCEPT
             !.outcome = IF r.error # "" THEN "thrown" ELSE "returned",
             !.error = r.error, !.calls = r.calls, !.log = r.log,
             !.visited = r.visited, !.frame = controller.controlledFrame]
  /\ UNCHANGED <<cvars, gvars, controller, promise>>

(***************************************************************************)
(* The specifications: one control on its own, a tree of groups, and the   *)
(* controller with the attribute control it follows.                       *)
(***************************************************************************)
\* The controller when its constructor has read $('#view').
NewController(view) ==
  [controlledFrame |-> view, controlGroups |-> <<>>, addedContentScripts |-> <<>>]

\* The page as it is loaded: the frame of its markup, if it has one, in the
\* container, no control, no listener on its buttons.
NewPage(view) ==
  [made |-> 0,
   container |-> IF view = NoFrame THEN {} ELSE {view},
   controlDiv |-> <<>>,
   listeners |-> [b \in Buttons |-> 0],
   indicators |-> [canGoBack |-> FALSE, canGoForward |-> FALSE],
   display |-> <<>>]

\* No group has been constructed.
NoGroups == [g \in {} |-> ControlGroupElement(<<>>, JSUndefined)]

Init ==
  /\ params \in Params
  /\ lifecycle = "new"
  /\ handler = NoHandler
  /\ bound = NoHandler
  /\ widgets = <<>>
  /\ button = FALSE
  /\ waiters = <<>>
  /\ lastWrite = [id \in FieldIds |-> NoWrite]
  /\ ret = Ret("new")
  /\ groups = NoGroups
  /\ gret = GRet("new", "")
  /\ controller = NewController(NoFrame)
  /\ page = NewPage(NoFrame)
  /\ host = NewFrame({})
  /\ promise = NoPromise
  /\ kret = KRet("new")

Next ==
  \/ Constructor /\ UNCHANGED <<gvars, pvars>>
  \/ Connect /\ UNCHANGED <<gvars, pvars>>
  \/ render /\ UNCHANGED <<gvars, pvars>>
  \/ RunReaction /\ UNCHANGED <<gvars, pvars>>
  \/ \E fieldName \in FieldIds \cup {NoSuchField} :
       GetFieldValue(fieldName) /\ UNCHANGED <<gvars, pvars>>
  \/ lifecycle = "rendered" /\ GetFieldValue(ButtonId) /\ UNCHANGED <<gvars, pvars>>
  \/ \E fieldName \in FieldIds :
       \E value \in UpdateValues(TypeOf(fieldName)) :
         UpdateFieldValue(fieldName, value) /\ UNCHANGED <<gvars, pvars>>
  \/ \E h \in Handlers \cup {NoHandler} : SetButtonHandler(h) /\ UNCHANGED <<gvars, pvars>>
  \/ Submit /\ UNCHANGED <<gvars, pvars>>
  \/ onBtnClick /\ UNCHANGED <<gvars, pvars>>
  \/ \E code \in KeyCodes : onKeyDown(code) /\ UNCHANGED <<gvars, pvars>>
  \/ \E i \in DOMAIN widgets : UserToggle(i) /\ UNCHANGED <<gvars, pvars>>
  \/ \E i \in DOMAIN widgets, str \in TypedStrings : UserType(i, str) /\ UNCHANGED <<gvars, pvars>>
  \/ \E i \in DOMAIN widgets, k \in 1..2 : UserSelect(i, k) /\ UNCHANGED <<gvars, pvars>>

Spec == Init /\ [][Next]_vars

\* The groups of a page, the controls in them left as they were constructed.
GroupInit ==
  /\ params = ControlElementParams("back()", FALSE, <<>>, JSUndefined, "h1")
  /\ lifecycle = "constructed"
  /\ handler = params.handler
  /\ bound = params.handler
  /\ widgets = <<>>
  /\ button = FALSE
  /\ waiters = <<>>
  /\ lastWrite = [id \in FieldIds |-> NoWrite]
  /\ ret = Ret("constructor")
  /\ \E tree \in Trees, expanded \in ExpandedParams :
       groups = [g \in Groups |-> ControlGroupElement(tree[g], expanded[g])]
  /\ gret = GRet("constructor", "")
  /\ controller = NewController(NoFrame)
  /\ page = NewPage(NoFrame)
  /\ host = NewFrame({})
  /\ promise = NoPromise
  /\ kret = KRet("new")

GroupNext ==
  \/ \E g \in Groups : append(g)
  \/ \E g \in Groups : GroupRender(g)
  \/ \E g \in Groups, control \in Groups \cup Controls : AddControl(g, control)
  \/ \E g \in Groups : toggleCollapseGroup(g)
  \/ \E g \in Groups, expanded \in BOOLEAN : SetExpanded(g, expanded)
  \/ \E expanded \in BOOLEAN : expandAllControls(expanded)
  \/ \E g \in Groups : RefreshState(g)

GroupSpec == GroupInit /\ [][GroupNext]_vars

\* The groups of a page on which other code than render() calls SetGroupDepth.
DepthNext ==
  \/ \E g \in Groups : append(g)
  \/ \E g \in Groups : GroupRender(g)
  \/ \E g \in Groups : toggleCollapseGroup(g)
  \/ \E g \in Groups, depth \in Depths : SetGroupDepth(g, depth)

DepthSpec == GroupInit /\ [][DepthNext]_vars

\* The page when the constructor of the controller starts: one of the attribute
\* controls is followed, and the browser defines some API on a frame.
ControllerInit ==
  /\ params \in AttributeControls
  /\ lifecycle = "new"
  /\ handler = NoHandler
  /\ bound = NoHandler
  /\ widgets = <<>>
  /\ button = FALSE
  /\ waiters = <<>>
  /\ lastWrite = [id \in FieldIds |-> NoWrite]
  /\ ret = Ret("new")
  /\ groups = NoGroups
  /\ gret = GRet("new", "")
  /\ \E view \in {NoFrame, StaticView}, api \in ApiSets :
       /\ controller = NewController(view)
       /\ page = NewPage(view)
       /\ host = NewFrame(api)
  /\ promise = NoPromise
  /\ kret = KRet("new")

ControllerNext ==
  \/ CreateControlledFrameTag
  \/ Connect /\ UNCHANGED <<gvars, pvars>>
  \/ render /\ UNCHANGED <<gvars, pvars>>
  \/ SettleRead
  \/ thenCallback
  \/ setAttribute
  \/ \E i \in DOMAIN widgets : PageIdle /\ UserToggle(i) /\ UNCHANGED <<gvars, pvars>>
  \/ \E i \in DOMAIN widgets, str \in Hosts :
       PageIdle /\ UserType(i, str) /\ UNCHANGED <<gvars, pvars>>
  \/ \E b \in Buttons, scriptNameList \in ScriptNameLists : Click(b, scriptNameList)
  \/ \E op \in NavigationControls, num \in GoSteps : ClickNavigation(op, num)
  \/ NavigationCallback
  \/ onloadcommit

ControllerSpec == ControllerInit /\ [][ControllerNext]_vars

\* The renders and the reactions of promises are microtasks: each one that is
\* due runs.
AttributeSpec ==
  /\ ControllerSpec
  /\ WF_vars(Connect /\ UNCHANGED <<gvars, pvars>>)
  /\ WF_vars(render /\ UNCHANGED <<gvars, pvars>>)
  /\ WF_vars(SettleRead)
  /\ WF_vars(thenCallback)

(***************************************************************************)
(* Properties of Submit, SetButtonHandler and the triggers.                *)
(***************************************************************************)
Triggers == {"Submit", "onBtnClick", "onKeyDown"}

\* C1: Submit() on a control with no bound handler logs a warning and does not
\* throw, and it invokes no handler.
C1_SubmitUnboundWarns ==
  (ret.op = "Submit" /\ handler = NoHandler) =>
    /\ ret.outcome = "returned"
    /\ ret.calls = <<>>
    /\ ret.log = <<"warn">>

\* C2: Submit() on a control with a bound handler h invokes h exactly once, with
\* the control as its only argument, and invokes nothing else.
C2_SubmitInvokesOnce ==
  (ret.op = "Submit" /\ handler # NoHandler) =>
    /\ ret.calls = <<[h |-> handler, arg |-> "this"]>>
    /\ ret.outcome = "returned"

\* Submit() has run on a control whose handler was bound by SetButtonHandler.
C2_Witness ==
  /\ ret.op = "Submit"
  /\ handler = "h2"
  /\ Len(ret.calls) = 1

\* C3: every trigger (Submit(), a click on the button, Enter in the control)
\* invokes only the handler that was bound last; a handler bound before it, the
\* constructor's included, is not invoked again.
C3_LastBoundHandlerOnly ==
  ret.op \in Triggers =>
    \A i \in DOMAIN ret.calls : ret.calls[i].h = bound /\ bound # NoHandler

\* Enter has invoked a handler that replaced the constructor's handler.
C3_Witness ==
  /\ ret.op = "onKeyDown"
  /\ params.handler = "h1"
  /\ bound = "h2"
  /\ Len(ret.calls) = 1

Descriptor(fieldName) ==
  Fields[CHOOSE i \in DOMAIN Fields : FieldId(Fields[i]) = fieldName]

\* The widget of the field with this id.
WidgetOf(fieldName) == widgets[QuerySelector(widgets, fieldName)]

\* C5: GetFieldValue issued before the first render has completed, on a control
\* just constructed or attached but not yet rendered, waits for the render and
\* then resolves with the widget's current value; it never fails because the
\* widget does not exist yet.
C5_ReadWaitsForRender ==
  (ret.op = "GetFieldValue" /\ ret.issued # "rendered" /\ ret.field \in FieldIds) =>
    \/ ret.outcome = "suspended" /\ lifecycle # "rendered"
    \/ /\ ret.outcome = "resolved"
       /\ lifecycle = "rendered"
       /\ ret.value = getValue(widgets, ret.field).value

\* C6: UpdateFieldValue issued before the first render is neither lost nor
\* applied to a missing widget, and every GetFieldValue issued after it on the
\* control observes its value.
C6_EarlyWriteObserved ==
  /\ (ret.op = "UpdateFieldValue" /\ ret.issued # "rendered"
        /\ ret.field \in FieldIds) =>
       \/ ret.outcome = "suspended" /\ lifecycle # "rendered"
       \/ ret.outcome = "returned" /\ lifecycle = "rendered"
  /\ (ret.op = "GetFieldValue" /\ ret.outcome # "suspended"
        /\ ret.expect # NoWrite /\ TypeOf(ret.field) \in {"checkbox", "text"}) =>
       /\ ret.outcome = "resolved"
       /\ ret.value = ret.expect

\* C7: on a checkbox and on a text field, the GetFieldValue that follows an
\* applied UpdateFieldValue(name, v) returns v, for v a boolean and a string
\* respectively.
C7_RoundTrip ==
  [][(/\ ret.op = "UpdateFieldValue"
      /\ ret.outcome = "returned"
      /\ TypeOf(ret.field) \in {"checkbox", "text"}
      /\ ret'.op = "GetFieldValue"
      /\ ret'.field = ret.field
      /\ ret'.outcome # "suspended") =>
       (ret'.outcome = "resolved" /\ ret'.value = ret.arg)]_vars

\* 'https://b.com' was written over the initial 'https://a.com' of field src
\* and read back.
C7_Witness ==
  /\ ret.op = "GetFieldValue"
  /\ ret.field = "src"
  /\ ret.outcome = "resolved"
  /\ ret.expect = JSString("https://b.com")
  /\ ret.value = JSString("https://b.com")

\* C8: GetFieldValue issued right after the construction of the control, with
\* no update of the field in between, returns for a text field the initial
\* value of its descriptor, or the empty string if it has none.
C8_InitialTextValue ==
  (ret.op = "GetFieldValue" /\ ret.issued = "constructed"
     /\ ret.outcome # "suspended" /\ TypeOf(ret.field) = "text"
     /\ lastWrite[ret.field] = NoWrite) =>
    /\ ret.outcome = "resolved"
    /\ ret.value = IF Descriptor(ret.field).value = JSUndefined
                   THEN JSString("") ELSE Descriptor(ret.field).value

\* The read issued on the constructed control has returned 'https://a.com'.
C8_Witness ==
  /\ ret.op = "GetFieldValue"
  /\ ret.issued = "constructed"
  /\ ret.outcome = "resolved"
  /\ ret.value = JSString("https://a.com")
  /\ lastWrite[ret.field] = NoWrite

\* C9: a field rendered as an editable text field of a non-text type starts with
\* the value of its descriptor whenever one is given, 0 included, and starts
\* empty only when none is given.
C9_InitialValueShown ==
  ret.op = "render" =>
    \A i \in DOMAIN Fields :
      Fields[i].type \notin {"checkbox", "select", "div", "text"} =>
        widgets[i].value = IF Fields[i].value = JSUndefined
                           THEN "" ELSE JSToString(Fields[i].value)

\* C10: GetFieldValue on a select with multiple = true returns exactly the
\* selected options, and on a single select the one selected value.
C10_SelectedOptionsReturned ==
  (ret.op = "GetFieldValue" /\ ret.outcome = "resolved"
     /\ TypeOf(ret.field) = "select") =>
    IF Descriptor(ret.field).multiple
    THEN {ret.value.opts[k].value : k \in DOMAIN ret.value.opts} =
           WidgetOf(ret.field).selected
    ELSE ret.value = JSString(SelectValue(WidgetOf(ret.field)))

\* C11: UpdateFieldValue on a select field is a no-op: the selection and every
\* other field of the control stay as they were, and the call does not fail.
C11_SelectUpdateIsNoOp ==
  [][(ret'.op = "UpdateFieldValue" /\ TypeOf(ret'.field) = "select") =>
       /\ widgets' = widgets
       /\ ret'.outcome \in {"returned", "suspended"}]_vars

\* C12: UpdateFieldValue(name, t) on a div field replaces the text it shows by
\* t, a GetFieldValue after it returns t, and a GetFieldValue before any update
\* returns the empty text.
C12_DivShowsText ==
  /\ (ret.op = "UpdateFieldValue" /\ ret.outcome = "returned"
        /\ TypeOf(ret.field) = "div") =>
       WidgetOf(ret.field).innerText = JSToString(ret.arg)
  /\ (ret.op = "GetFieldValue" /\ ret.outcome # "suspended"
        /\ TypeOf(ret.field) = "div") =>
       /\ ret.outcome = "resolved"
       /\ ret.value = IF ret.expect = NoWrite
                      THEN JSString("") ELSE JSString(JSToString(ret.expect))

\* C13: GetFieldValue(name) on a rendered control in which no field has the id
\* name fails: its result is a failure, never a value.
C13_MissingFieldFails ==
  (ret.op = "GetFieldValue" /\ ret.issued = "rendered" /\ ret.field \notin FieldIds) =>
    ret.outcome = "rejected"

(***************************************************************************)
(* Properties of the constructor and of the submit button.                 *)
(***************************************************************************)
\* C14: the constructor throws when it is given no name and either no field or
\* a first field without a name; given a name, or a first field with a name,
\* it succeeds.
C14_ConstructorRequiresName ==
  LET nameless == /\ params.name = Absent
                  /\ \/ Fields = <<>>
                     \/ Fields[1].name = Absent
  IN /\ lifecycle # "new" => (lifecycle = "failed" <=> nameless)
     /\ ret.op = "constructor" => (ret.outcome = "thrown" <=> nameless)

\* The constructor has thrown for a field list whose first field has no name.
C14_Witness ==
  /\ ret.op = "constructor"
  /\ ret.outcome = "thrown"
  /\ lifecycle = "failed"
  /\ Fields # <<>>

\* C15: once the control has rendered, its submit button is shown exactly when
\* the control is not an event control and a handler is bound at that moment,
\* a handler bound later through SetButtonHandler included.
C15_ButtonShownIffHandler ==
  lifecycle = "rendered" =>
    (button <=> (~JSToBoolean(IsEventControl) /\ handler # NoHandler))

(***************************************************************************)
(* Properties of the control groups.                                       *)
(***************************************************************************)
\* C16: SetExpanded(v) on a group sets expanded to v on the group and on every
\* group below it, at every depth; it changes the expanded state of no other
\* group, and nothing else of any group or control.
C16_SetExpandedWholeSubtree ==
  [][gret'.op = "SetExpanded" =>
       /\ \A n \in Groups :
            /\ groups'[n].expanded = IF n \in Subtree(groups, gret'.node)
                                     THEN gret'.expanded ELSE groups[n].expanded
            /\ [groups'[n] EXCEPT !.expanded = FALSE, !.dirty = FALSE] =
                 [groups[n] EXCEPT !.expanded = FALSE, !.dirty = FALSE]
       /\ cvars' = cvars]_vars

\* SetExpanded(false) on A has collapsed C, two levels below it, which had
\* rendered expanded.
C16_Witness ==
  /\ gret.op = "SetExpanded"
  /\ gret.node = "A"
  /\ ~gret.expanded
  /\ "B" \in Children(groups, "A")
  /\ "C" \in Children(groups, "B")
  /\ groups["C"].state = "rendered"
  /\ groups["C"].dirty
  /\ ~groups["C"].expanded

\* C17: once a group has rendered again after a change of expanded, its child
\* region is hidden exactly when expanded is false; collapsing and expanding
\* neither remove nor reorder its children.
C17_CollapseHidesChildren ==
  [][/\ \A g \in Groups :
          (groups'[g].state = "rendered" /\ ~groups'[g].dirty) =>
            (groups'[g].collapsed <=> ~groups'[g].expanded)
     /\ gret'.op \in {"toggleCollapseGroup", "SetExpanded", "expandAllControls"} =>
          \A g \in Groups :
            /\ groups'[g].controls = groups[g].controls
            /\ groups'[g].slot = groups[g].slot
     /\ gret'.op = "render" =>
          /\ \A g \in Groups : groups'[g].controls = groups[g].controls
          /\ groups'[gret'.node].slot = groups[gret'.node].controls]_vars

\* B, with its children y and C, has rendered collapsed after a click on its
\* title.
C17_Witness ==
  /\ gret.op = "render"
  /\ gret.node = "B"
  /\ groups["B"].collapsed
  /\ ~groups["B"].expanded
  /\ groups["B"].slot = <<"y", "C">>
  /\ groups["C"].title # NoClass

\* C18: after a parent has rendered with depth d, every group in its list, given
\* to the constructor or added by AddControl, has depth d + 1; in a chain
\* A, B, C with A at depth 0, once all three have rendered, B has depth 1 and
\* C has depth 2.
C18_ChildDepthIsParentPlusOne ==
  /\ gret.op = "render" =>
       \A c \in Children(groups, gret.node) \cap Groups :
         groups[c].depth = gret.depth + 1
  /\ ("B" \in Children(groups, "A") /\ "C" \in Children(groups, "B")
        /\ \A g \in Groups : groups[g].state = "rendered") =>
       /\ groups["A"].depth = 0
       /\ groups["B"].depth = 1
       /\ groups["C"].depth = 2

\* The chain A, B, C has rendered, C last, with C at depth 2.
C18_Witness ==
  /\ gret.op = "render"
  /\ gret.node = "C"
  /\ gret.depth = 2
  /\ "B" \in Children(groups, "A")
  /\ "C" \in Children(groups, "B")
  /\ \A g \in Groups : groups[g].state = "rendered"

\* C19: the depth of a child group is the depth of its parent plus one and the
\* depth class of a rendered title is the depth of its group, also after
\* SetGroupDepth has changed the depth of an ancestor; stated for the states in
\* which no update is pending.
C19_DepthFollowsPosition ==
  GroupsIdle =>
    \A g \in Groups :
      groups[g].state = "rendered" =>
        /\ groups[g].title = groups[g].depth
        /\ \A c \in Children(groups, g) \cap Groups :
             groups[c].state = "rendered" => groups[c].depth = groups[g].depth + 1

\* C20: RefreshState() on a group runs RefreshState on every child that has the
\* method, passes over every child that has not without failing, and reaches
\* every group nested below it.
C20_RefreshSkipsControls ==
  gret.op = "RefreshState" =>
    /\ gret.outcome = "returned"
    /\ {gret.visited[i] : i \in DOMAIN gret.visited} =
         Descendants(groups, gret.node) \cap Groups

(***************************************************************************)
(* Properties of a click and of Enter without a handler.                   *)
(***************************************************************************)
\* C24: a click on the submit button while no handler is bound logs an error,
\* invokes nothing and does not throw; a click while a handler is bound invokes
\* that handler exactly once.
C24_ClickUnboundLogsError ==
  ret.op = "onBtnClick" =>
    IF handler = NoHandler
    THEN /\ ret.outcome = "returned"
         /\ ret.calls = <<>>
         /\ ret.log = <<"err">>
    ELSE /\ ret.outcome = "returned"
         /\ ret.calls = <<Invoke(handler)>>

\* C30: Enter inside an event control, or inside a control with no bound
\* handler, invokes no handler and raises no error.
C30_EnterWithoutHandlerIsQuiet ==
  (ret.op = "onKeyDown" /\ ret.field = "Enter"
     /\ (JSToBoolean(IsEventControl) \/ handler = NoHandler)) =>
    /\ ret.calls = <<>>
    /\ ret.outcome = "returned"

\* C23: after any number of calls of CreateControlledFrameTag, the constructor's
\* and those of Recreate, the container holds exactly one frame, which is the
\* one controller.controlledFrame refers to; every frame created before it, and
\* the one of the page's markup, has been removed.
C23_OneFrameInContainer ==
  page.made > 0 =>
    /\ page.container = {controller.controlledFrame}
    /\ controller.controlledFrame = StaticView + page.made

\* A Recreate has replaced the frame the constructor created.
C23_Witness ==
  /\ page.made = 2
  /\ kret.op = "CreateControlledFrameTag"
  /\ page.container = {StaticView + 2}

\* The member of the frame that the listener of a button uses.
CapabilityOf(b) ==
  CASE b = "print_btn" -> "print"
    [] b = "add_content_scripts_btn" -> "addContentScripts"
    [] b = "remove_content_scripts_btn" -> "removeContentScripts"
    [] OTHER -> "request"

\* C28: after any number of Recreates, controller.controlGroups and the control
\* container hold the groups built for the current frame and no other: no group
\* built for a removed frame is kept or shown a second time.
C28_OnlyCurrentGroups ==
  page.made > 0 =>
    /\ controller.controlGroups = BuiltGroups(host.api, controller.controlledFrame)
    /\ page.controlDiv = BuiltGroups(host.api, controller.controlledFrame)

\* C27: after any number of Recreates, one click on a method button of the page
\* whose method the frame has makes exactly one call of that method.
C27_OneCallPerClick ==
  (/\ kret.op = "click"
   /\ page.listeners[kret.button] > 0
   /\ CapabilityOf(kret.button) \in host.api)
    => Len(kret.calls) = 1

\* C22: an operation of the controller that uses a member the frame does not
\* have logs a warning, makes no call of the frame and throws nothing: the
\* clicks on the buttons of the page, the navigation controls, and the calls
\* made while the controls are built.
C22_AbsentCapabilityWarns ==
  /\ (/\ kret.op = "CreateControlledFrameTag"
      /\ ~({"contextMenus", "canGoBack", "canGoForward"} \subseteq host.api))
       => /\ kret.outcome = "returned"
          /\ \E k \in DOMAIN kret.log : kret.log[k] = "warn"
  /\ (/\ kret.op = "click"
      /\ page.listeners[kret.button] > 0
      /\ CapabilityOf(kret.button) \notin host.api)
       => /\ kret.outcome = "returned"
          /\ kret.calls = <<>>
          /\ \E k \in DOMAIN kret.log : kret.log[k] = "warn"
  /\ (kret.op \in NavigationControls /\ kret.op \notin host.api)
       => /\ kret.outcome = "returned"
          /\ kret.calls = <<>>
          /\ kret.log = <<"warn">>

\* C21: when RefreshState has run, the attribute field followed shows the value
\* of the frame's attribute, the indicators show the frame's canGoBack() and
\* canGoForward(), and every state query the frame has was called.
C21_RefreshShowsHostState ==
  kret.op = "RefreshState" =>
    /\ kret.outcome = "returned"
    /\ \A k \in DOMAIN StateQueries :
         StateQueries[k] \in host.api =>
           \E c \in DOMAIN kret.calls : kret.calls[c] = StateQueries[k]
    /\ page.indicators = [canGoBack |-> HostCanGoBack(host),
                          canGoForward |-> HostCanGoForward(host)]

\* C26: the list of added content scripts holds details of scripts, each with
\* the name it was added under; after a click on remove it holds none whose
\* name was in the list typed; and the list RefreshState displays shows the
\* names of the scripts the controller holds.
C26_TrackedScriptsAreDetails ==
  /\ \A k \in DOMAIN controller.addedContentScripts :
       /\ controller.addedContentScripts[k].kind = "details"
       /\ controller.addedContentScripts[k].name \in ScriptNames
  /\ (/\ kret.op = "click"
      /\ kret.button = "remove_content_scripts_btn"
      /\ kret.calls # <<>>)
       => \A k \in DOMAIN controller.addedContentScripts :
            \A n \in DOMAIN kret.names :
              controller.addedContentScripts[k].name # kret.names[n]
  /\ (kret.op = "RefreshState" /\ kret.outcome = "returned")
       => \A k \in DOMAIN page.display : page.display[k] \in ScriptNames

\* C29: when the callback of back(), forward() or go() has run, both indicators
\* are up to date: the canGoBack() checkbox shows the frame's canGoBack() and
\* the canGoForward() checkbox the frame's canGoForward().
C29_CallbackUpdatesBothIndicators ==
  kret.op = "callback" =>
    /\ page.indicators.canGoBack = HostCanGoBack(host)
    /\ page.indicators.canGoForward = HostCanGoForward(host)

\* What the frame's attribute is to be for the value a field shows.
AttributeApplied ==
  LET attribute == AttributeOf(params.handler)
      field == getValue(widgets, attribute).value
  IN
  /\ promise = NoPromise
  /\ lifecycle = "rendered"
  /\ CASE attribute \in {"allowtransparency", "autosize"} ->
            host.attributes[attribute] = JSString(IF field = JSBool(TRUE) THEN "on" ELSE "")
       [] attribute = "src" ->
            /\ field = JSString(prependHTTPSProtocol(JSToString(field)))
            /\ isValidUrl(JSToString(field)) => host.attributes[attribute] = field
       [] OTHER -> host.attributes[attribute] = field

\* C25: after CreateControlledFrameTag, which calls Submit() on an attribute
\* control that has not rendered, the renders and the callbacks of promises
\* being run when due, the attribute of the new frame eventually is what the
\* field of the control shows: 'on' or '' for a checkbox, the URL with its
\* protocol for src if it is a valid URL, the text for name and partition.
C25_AttributesEventuallyApplied ==
  (kret.op = "CreateControlledFrameTag" /\ promise.state = "pending") ~> AttributeApplied

\* The attribute of a frame made by Recreate has been set from the field.
C25_Witness ==
  /\ page.made = 2
  /\ kret.op = params.handler
  /\ AttributeApplied
  /\ host.attributes[AttributeOf(params.handler)] # JSUndefined

====
